---- MODULE Spec2Model ----
\* Task execution engine of tusk: Task.Execute, its run / finally lists,
\* sub-task recursion and the Context task stack (runner package).
EXTENDS Integers, Sequences, FiniteSets, TLC

VARIABLES
    root,    \* name of the task the command line invokes
    argv,    \* the positional arguments the command line passes (c.Args())
    frames,  \* call stack of Task.Execute activations, innermost last
    heap,    \* backing arrays of the []*Task slices held by Contexts
    env,     \* the process environment (os.Setenv / os.Unsetenv)
    log,     \* everything that happened, in order (logger output and calls)
    result,  \* what the top-level Execute returned, or Pending
    ctxs,    \* Contexts built by WithTask alone (specification SpecCtx)
    node,    \* a task definition of the config file (specification SpecYaml)
    decoded  \* what Task.UnmarshalYAML made of node, once it has run

vars == <<root, argv, frames, heap, env, log, result, ctxs, node, decoded>>

\* ---------------------------------------------------------------- bounds

\* Deepest nesting of Execute activations the model follows.
MaxDepth == 4

\* Number of WithTask calls followed under SpecCtx.
MaxPushes == 5

\* Most positional arguments the command line passes.
MaxArgs == 2

\* Longest options list and longest args list of a task definition.
MaxNames == 2

\* Longest source list and longest target list of a task definition.
MaxPaths == 1

\* ------------------------------------------------------------ the config

Cmd(name) == [Exec |-> name, Quiet |-> FALSE]

QuietCmd(name) == [Exec |-> name, Quiet |-> TRUE]

NoEnv == [k \in {} |-> "x"]

\* A Run item: its commands, its resolved sub-tasks and its set-environment
\* map (a value of Null unsets the variable).
Item(cmds, tasks, setenv) ==
    [Command |-> cmds, Tasks |-> tasks, SetEnvironment |-> setenv]

Null == "<nil>"

EnvKeys == {"X", "Y"}

\* Variable names os.Setenv and os.Unsetenv reject.
InvalidKeys == {""}

\* The task catalogue the runs are drawn from.
Catalogue ==
    [ build |->
        [ Name |-> "build", Args |-> <<"target">>, Quiet |-> FALSE, Private |-> FALSE,
          RunList |-> << Item(<<Cmd("c1"), Cmd("c2")>>, <<>>, NoEnv),
                         Item(<<Cmd("c3")>>, <<>>, [k \in {"X"} |-> "1"]) >>,
          Finally |-> << Item(<<Cmd("f1")>>, <<>>, NoEnv),
                         Item(<<Cmd("f2")>>, <<>>,
                              [k \in {"", "Y"} |-> IF k = "Y" THEN "3" ELSE "v"]) >> ],
      outer |->
        [ Name |-> "outer", Args |-> <<>>, Quiet |-> FALSE, Private |-> FALSE,
          RunList |-> << Item(<<Cmd("o1")>>, <<"inner", "leaf">>,
                              [k \in {"X", "Y"} |-> IF k = "X" THEN "2" ELSE Null]),
                         Item(<<QuietCmd("o2")>>, <<>>, NoEnv) >>,
          Finally |-> << Item(<<Cmd("of")>>, <<>>, NoEnv) >> ],
      inner |->
        [ Name |-> "inner", Args |-> <<>>, Quiet |-> TRUE, Private |-> FALSE,
          RunList |-> << Item(<<>>, <<"leaf">>, [k \in {"Y"} |-> "4"]),
                         Item(<<Cmd("i1")>>, <<>>, NoEnv) >>,
          Finally |-> << Item(<<Cmd("if")>>, <<>>, NoEnv) >> ],
      leaf |->
        [ Name |-> "leaf", Args |-> <<>>, Quiet |-> FALSE, Private |-> TRUE,
          RunList |-> << Item(<<Cmd("l1")>>, <<>>, NoEnv) >>,
          Finally |-> << >> ],
      loop |->
        [ Name |-> "loop", Args |-> <<>>, Quiet |-> FALSE, Private |-> FALSE,
          RunList |-> << Item(<<>>, <<"loop">>, NoEnv) >>,
          Finally |-> << >> ],
      ping |->
        [ Name |-> "ping", Args |-> <<>>, Quiet |-> FALSE, Private |-> FALSE,
          RunList |-> << Item(<<>>, <<"pong">>, NoEnv) >>,
          Finally |-> << >> ],
      pong |->
        [ Name |-> "pong", Args |-> <<>>, Quiet |-> FALSE, Private |-> FALSE,
          RunList |-> << >>,
          Finally |-> << Item(<<>>, <<"ping">>, NoEnv) >> ] ]

CatalogueNames == DOMAIN Catalogue

\* The tasks the command line may invoke.
Roots == {"build", "outer", "loop", "ping"}

\* Exit statuses of a failing command.
ExitCodes == {1, 2}

\* The positional argument lists the command line may pass.
ArgLists == {[k \in 1..n |-> "v"] : n \in 0..MaxArgs}

\* ------------------------------------------------ decoding a task definition

\* Sequences over S of length at most n.
SeqsUpTo(S, n) == UNION {[1..k -> S] : k \in 0..n}

\* An option or an arg, as far as isValid reads it.
Named(name) == [Name |-> name]

\* The fields of a Task that isValid reads.
TaskFields(source, target, options, args) ==
    [Source |-> source, Target |-> target, Options |-> options, Args |-> args]

\* var taskTarget Task, var includeTarget Task: the zero Task.
ZeroTask == TaskFields(<<>>, <<>>, <<>>, <<>>)

\* The task definitions the config file may hold.
TaskShapes ==
    {TaskFields(so, ta, op, ar) :
        so \in SeqsUpTo({"src"}, MaxPaths), ta \in SeqsUpTo({"out"}, MaxPaths),
        op \in SeqsUpTo({Named("a"), Named("b")}, MaxNames),
        ar \in SeqsUpTo({Named("a"), Named("b")}, MaxNames)}

\* A YAML node for a task: the file its include key names ("" without the
\* key), its other keys, and whether those keys decode into a Task at all.
YamlNode(include, typed, fields) ==
    [Include |-> include, Typed |-> typed, Fields |-> fields]

\* The files an include key may name; "missing.yml" cannot be opened.
Files ==
    ("good.yml" :> YamlNode("", TRUE,
          TaskFields(<<"src">>, <<"out">>, <<Named("a")>>, <<Named("b")>>)))
    @@ ("bad.yml" :> YamlNode("", TRUE,
          TaskFields(<<"src">>, <<>>, <<>>, <<>>)))
    @@ ("chain.yml" :> YamlNode("good.yml", TRUE, ZeroTask))

Includes == {"", "missing.yml"} \cup DOMAIN Files

YamlNodes ==
    {YamlNode(inc, ty, f) : inc \in Includes, ty \in BOOLEAN, f \in TaskShapes}

NoNode == YamlNode("", TRUE, ZeroTask)

\* Errors of the decoding; a yaml.TypeError has msg "type".
YamlErr(msg, arg) == [msg |-> msg, arg |-> arg]

YamlNil == YamlErr("nil", "")

\* A faulty variant of isValid: the names are compared position by position.
isValidPairwise(t) ==
    IF Len(t.Source) > 0 /\ Len(t.Target) = 0
    THEN YamlErr("task source cannot be defined without target", "")
    ELSE IF Len(t.Target) > 0 /\ Len(t.Source) = 0
    THEN YamlErr("task target cannot be defined without source", "")
    ELSE LET clash == {o \in DOMAIN t.Options :
                          o \in DOMAIN t.Args /\ t.Options[o].Name = t.Args[o].Name}
         IN  IF clash # {}
             THEN YamlErr("argument and option must have unique names within a task",
                          t.Options[CHOOSE o \in clash : \A p \in clash : o <= p].Name)
             ELSE YamlNil

\* Task.isValid: the error it returns, YamlNil for nil.
isValid(t) ==
    IF Len(t.Source) > 0 /\ Len(t.Target) = 0
    THEN YamlErr("task source cannot be defined without target", "")
    ELSE IF Len(t.Target) > 0 /\ Len(t.Source) = 0
    THEN YamlErr("task target cannot be defined without source", "")
    ELSE LET clash == {o \in DOMAIN t.Options :
                          \E a \in DOMAIN t.Args : t.Options[o].Name = t.Args[a].Name}
         IN  IF clash # {}
             THEN YamlErr("argument and option must have unique names within a task",
                          t.Options[CHOOSE o \in clash : \A p \in clash : o <= p].Name)
             ELSE YamlNil

\* What a candidate's Unmarshal leaves: its error and its target.
Attempt(err, target) == [err |-> err, target |-> target]

\* What UnmarshalYAML leaves: the error it returns, the Task assigned to
\* *t, and the candidate that assigned it ("none" on error).
Outcome(err, t, via) == [err |-> err, t |-> t, via |-> via]

\* marshal.UnmarshalOneOf for the two candidates of a task: the include
\* candidate (no Validate), then the task candidate (Validate: isValid).
\* A yaml.TypeError of a candidate passes on to the next one, any other
\* error ends the decoding; the first candidate to succeed is assigned.
UnmarshalOneOf(include, task) ==
    IF include.err = YamlNil THEN Outcome(YamlNil, include.target, "include")
    ELSE IF include.err.msg # "type" THEN Outcome(include.err, ZeroTask, "none")
    ELSE IF task.err = YamlNil
    THEN IF isValid(task.target) = YamlNil
         THEN Outcome(YamlNil, task.target, "task")
         ELSE Outcome(isValid(task.target), ZeroTask, "none")
    ELSE IF task.err.msg # "type" THEN Outcome(task.err, ZeroTask, "none")
    ELSE Outcome(YamlErr("type", "no candidate matched"), ZeroTask, "none")

\* How unmarshal(&def) can fare when the node has an include key and other
\* keys: the other keys fit the inline map (and are refused next), or they
\* do not and unmarshal returns a yaml.TypeError.
DefOutcomes == {"fits", "typeerror"}

\* Task.UnmarshalYAML on node n; o is the way unmarshal(&def) fares.
RECURSIVE UnmarshalYAML(_, _)
UnmarshalYAML(n, o) ==
    LET includeCandidate ==
            IF n.Include = "" THEN Attempt(YamlErr("type", "include not specified"), ZeroTask)
            ELSE IF n.Fields # ZeroTask
            THEN IF o = "fits"
                 THEN Attempt(YamlErr("tasks using include may not specify other fields", ""),
                              ZeroTask)
                 ELSE Attempt(YamlErr("type", "def"), ZeroTask)
            ELSE IF n.Include \notin DOMAIN Files
            THEN Attempt(YamlErr("opening included file", n.Include), ZeroTask)
            ELSE LET file == UnmarshalYAML(Files[n.Include], o)
                 IN  IF file.err # YamlNil
                     THEN Attempt(YamlErr("decoding included file", n.Include), ZeroTask)
                     ELSE Attempt(YamlNil, file.t)
        taskCandidate ==
            IF n.Typed THEN Attempt(YamlNil, n.Fields)
            ELSE Attempt(YamlErr("type", "task"), ZeroTask)
    IN  UnmarshalOneOf(includeCandidate, taskCandidate)

NotDecoded == Outcome(YamlErr("pending", ""), ZeroTask, "none")

\* ------------------------------------------------- slices of task pointers

\* A Go slice: backing array (0 for nil), length and capacity.
NilSlice == [arr |-> 0, len |-> 0, cap |-> 0]

Free == "<free>"

\* The elements a slice shows, read through its backing array.
Elems(h, s) == [k \in 1..s.len |-> h[s.arr][k]]

\* slices.Clip: s[:len(s):len(s)].
Clip(s) == [s EXCEPT !.cap = s.len]

\* Capacity chosen by append when the array must grow (pointer elements:
\* doubling, rounded up to the allocator's size classes).
GrowCap(oldcap, needed) ==
    LET want == IF needed > 2 * oldcap THEN needed ELSE 2 * oldcap
    IN  IF want = 3 THEN 4 ELSE IF want = 5 THEN 6 ELSE want

\* append(s, x): in place when capacity is left, else into a fresh array.
\* Yields the new heap and the new slice.
AppendSlice(h, s, x) ==
    IF s.len < s.cap
    THEN [heap |-> [h EXCEPT ![s.arr][s.len + 1] = x],
          slice |-> [s EXCEPT !.len = s.len + 1]]
    ELSE LET newcap == GrowCap(s.cap, s.len + 1)
             fresh == [k \in 1..newcap |->
                         IF k <= s.len THEN h[s.arr][k]
                         ELSE IF k = s.len + 1 THEN x ELSE Free]
         IN  [heap |-> Append(h, fresh),
              slice |-> [arr |-> Len(h) + 1, len |-> s.len + 1, cap |-> newcap]]

\* A faulty variant of WithTask: append without clipping the receiver's stack.
WithTaskNoClip(h, taskStack, t) == AppendSlice(h, taskStack, t)

\* Context.WithTask: c.taskStack = append(slices.Clip(c.taskStack), t).
WithTask(h, taskStack, t) == AppendSlice(h, Clip(taskStack), t)

\* Context.TaskNames: names of the stack's tasks, private tasks left out.
RECURSIVE TaskNames(_)
TaskNames(stack) ==
    IF stack = <<>> THEN <<>>
    ELSE LET t == Catalogue[Head(stack)]
         IN  (IF t.Private THEN <<>> ELSE <<t.Name>>) \o TaskNames(Tail(stack))

\* A faulty variant of shouldBeQuiet: only the executing task is asked, not
\* the tasks that called it.
shouldBeQuietTopOnly(cmd, stack) ==
    cmd.Quiet \/ Catalogue[stack[Len(stack)]].Quiet

\* shouldBeQuiet: the command or any task of the stack is quiet.
shouldBeQuiet(cmd, stack) ==
    cmd.Quiet \/ \E k \in DOMAIN stack : Catalogue[stack[k]].Quiet

\* ------------------------------------------------------------------ errors

NoErr == [kind |-> "nil", code |-> 0, src |-> 0, wrap |-> "none"]

\* A fresh error value; src tells error values apart (Go errors are
\* compared by identity), code is the exit status of a failed command.
NewErr(kind, code, src) == [kind |-> kind, code |-> code, src |-> src, wrap |-> "none"]

\* fmt.Errorf("<prefix>: %w", e)
Wrapped(prefix, e) == [e EXCEPT !.wrap = prefix]

Pending == [kind |-> "pending", code |-> 0, src |-> 0, wrap |-> "none"]

\* ------------------------------------------------------------------ events

\* One entry of the log. inv numbers the Execute activations.
Ev(ev, inv) ==
    [ev |-> ev, inv |-> inv, s |-> "none", i |-> 0, j |-> 0, code |-> 0,
     err |-> NoErr, names |-> <<>>, key |-> "none", par |-> 0]

NumCalls == Cardinality({k \in DOMAIN log : log[k].ev = "call"})

\* ------------------------------------------------------------ activations

Top == frames[Len(frames)]

\* The list the activation is walking: RunList, or Finally in runFinally.
ListOf(f) ==
    IF f.s = "running" THEN Catalogue[f.t].RunList ELSE Catalogue[f.t].Finally

CurItem(f) == ListOf(f)[f.i]

\* A faulty variant of RunFinallyErr: the finally item's error replaces the
\* error the run list left.
RunFinallyErrOverwrite(prior, rerr) == rerr

\* runFinally, "Do not overwrite existing errors".
RunFinallyErr(prior, rerr) == IF prior = NoErr THEN rerr ELSE prior

\* A faulty variant of Fail: the run list goes on after a failing item.
FailKeepGoing(f, e) ==
    IF f.s = "running"
    THEN [f EXCEPT !.err = e,
                   !.pc = IF f.i < Len(ListOf(f)) THEN "loop" ELSE "defer",
                   !.i = f.i + 1, !.j = 0]
    ELSE [f EXCEPT !.err = RunFinallyErr(f.err, e), !.pc = "completed"]

\* A faulty variant of Fail: a failing run item makes Execute return without
\* its deferred runFinally.
FailSkipsFinally(f, e) ==
    IF f.s = "running"
    THEN [f EXCEPT !.err = e, !.pc = "completed"]
    ELSE [f EXCEPT !.err = RunFinallyErr(f.err, e), !.pc = "completed"]

\* A faulty variant of Fail: the cache is written after a failing run item too.
FailThenCache(f, e) ==
    IF f.s = "running"
    THEN [f EXCEPT !.err = e, !.pc = "cache"]
    ELSE [f EXCEPT !.err = RunFinallyErr(f.err, e), !.pc = "completed"]

\* A faulty variant of Fail: runFinally records the error of a failing
\* finally item and goes on with the next item.
FailFinallyGoesOn(f, e) ==
    IF f.s = "running"
    THEN [f EXCEPT !.err = e, !.pc = "defer"]
    ELSE [f EXCEPT !.err = RunFinallyErr(f.err, e),
                   !.pc = IF f.i < Len(ListOf(f)) THEN "loop" ELSE "completed",
                   !.i = f.i + 1, !.j = 0]

\* t.run returned error e to its loop: Execute returns it (the deferred
\* runFinally comes next), runFinally records it and returns.
Fail(f, e) ==
    IF f.s = "running"
    THEN [f EXCEPT !.err = e, !.pc = "defer"]
    ELSE [f EXCEPT !.err = RunFinallyErr(f.err, e), !.pc = "completed"]

\* The loop moves to the item after the current one, or leaves the list.
NextItem(f) ==
    IF f.i < Len(ListOf(f))
    THEN [f EXCEPT !.pc = "loop", !.i = f.i + 1, !.j = 0]
    ELSE [f EXCEPT !.pc = IF f.s = "running" THEN "cache" ELSE "completed",
                   !.i = f.i + 1, !.j = 0]

\* t.run after runCommands returned nil: runSubTasks, then runEnvironment.
AfterCommands(f) ==
    IF Len(CurItem(f).Tasks) > 0
    THEN [f EXCEPT !.pc = "subtasks", !.j = 1]
    ELSE [f EXCEPT !.pc = "environment", !.j = 0]

\* A faulty variant of AfterGuard: runCommands starts at the item's last command.
AfterGuardLastOnly(f) ==
    IF Len(CurItem(f).Command) > 0
    THEN [f EXCEPT !.pc = "commands", !.j = Len(CurItem(f).Command)]
    ELSE AfterCommands(f)

\* t.run once shouldRun said yes: runCommands first.
AfterGuard(f) ==
    IF Len(CurItem(f).Command) > 0
    THEN [f EXCEPT !.pc = "commands", !.j = 1]
    ELSE AfterCommands(f)

\* A faulty variant of AfterSubTask: the loop over r.Tasks goes on after a
\* sub-task that returned an error.
AfterSubTaskGoesOn(f, e) ==
    IF f.j < Len(CurItem(f).Tasks) THEN [f EXCEPT !.j = f.j + 1]
    ELSE [f EXCEPT !.pc = "environment", !.j = 0]

\* A faulty variant of AfterSubTask: the sub-task's error is wrapped on its way up.
AfterSubTaskWraps(f, e) ==
    IF e # NoErr THEN Fail(f, Wrapped("sub-task", e))
    ELSE IF f.j < Len(CurItem(f).Tasks) THEN [f EXCEPT !.j = f.j + 1]
    ELSE [f EXCEPT !.pc = "environment", !.j = 0]

\* runSubTasks after r.Tasks[j].Execute returned e.
AfterSubTask(f, e) ==
    IF e # NoErr THEN Fail(f, e)
    ELSE IF f.j < Len(CurItem(f).Tasks) THEN [f EXCEPT !.j = f.j + 1]
    ELSE [f EXCEPT !.pc = "environment", !.j = 0]

\* The callers' frames once the innermost Execute has returned e.
Deliver(callers, e) ==
    IF callers = <<>> THEN callers
    ELSE [callers EXCEPT ![Len(callers)] = AfterSubTask(callers[Len(callers)], e)]

\* Execute returns e to whoever called it, having logged evs.
Returning(callers, inv, e, evs) ==
    /\ frames' = Deliver(callers, e)
    /\ log' = log \o evs \o <<[Ev("return", inv) EXCEPT !.err = e]>>
    /\ result' = IF callers = <<>> THEN e ELSE result

\* ----------------------------------------------------------------- actions

\* What the calls Execute makes before the task starts can answer:
\* taskInputCachePath failing, isUpToDate failing, up to date, or stale.
EntryOutcomes == {"patherr", "checkerr", "uptodate", "stale"}

\* A faulty variant of StartTask: the sub-task is started but the caller
\* does not wait for it, it stays the activation that runs next.
StartTaskNoWait(callers, inv, t, slice, evs) ==
    LET new == [inv |-> inv, t |-> t, ctx |-> slice, s |-> "running",
                pc |-> IF Len(Catalogue[t].RunList) > 0 THEN "loop" ELSE "cache",
                i |-> 1, j |-> 0, err |-> NoErr]
    IN  /\ frames' = IF callers = <<>> THEN <<new>>
                     ELSE SubSeq(callers, 1, Len(callers) - 1)
                          \o <<new, callers[Len(callers)]>>
        /\ log' = log \o evs \o <<Ev("start", inv)>>
        /\ UNCHANGED result

\* A faulty variant of StartTask: the Context is shared, not copied, so
\* the caller goes on with the stack its sub-task was pushed on.
StartTaskSharedContext(callers, inv, t, slice, evs) ==
    LET new == [inv |-> inv, t |-> t, ctx |-> slice, s |-> "running",
                pc |-> IF Len(Catalogue[t].RunList) > 0 THEN "loop" ELSE "cache",
                i |-> 1, j |-> 0, err |-> NoErr]
    IN  /\ frames' = IF callers = <<>> THEN <<new>>
                     ELSE Append([callers EXCEPT ![Len(callers)].ctx = slice], new)
        /\ log' = log \o evs \o <<Ev("start", inv)>>
        /\ UNCHANGED result

\* Execute from PrintTask on: the task is logged as started, the two
\* defers are registered and the loop over RunList begins.
StartTask(callers, inv, t, slice, evs) ==
    /\ frames' = Append(callers,
          [inv |-> inv, t |-> t, ctx |-> slice, s |-> "running",
           pc |-> IF Len(Catalogue[t].RunList) > 0 THEN "loop" ELSE "cache",
           i |-> 1, j |-> 0, err |-> NoErr])
    /\ log' = log \o evs \o <<Ev("start", inv)>>
    /\ UNCHANGED result

\* A faulty variant of UpToDate: the task is logged as skipped and runs anyway.
UpToDateRunsAnyway(callers, inv, t, slice, evs) ==
    StartTask(callers, inv, t, slice, evs \o <<Ev("skipped", inv)>>)

\* Execute when isUpToDate says yes: PrintTaskSkipped and return nil.
UpToDate(callers, inv, t, slice, evs) ==
    Returning(callers, inv, NoErr, evs \o <<Ev("skipped", inv)>>)

\* A faulty variant of CheckFailed: the error of isUpToDate is dropped and the
\* task runs as if it were stale.
CheckFailedRuns(callers, inv, t, slice, evs, e) ==
    StartTask(callers, inv, t, slice, evs)

\* Execute when isUpToDate fails: return "checking cache: <e>".
CheckFailed(callers, inv, t, slice, evs, e) ==
    Returning(callers, inv, Wrapped("checking cache", e), evs)

\* Task.Execute up to its two defer statements, called with context stack
\* ctx by the activation on top of callers (by the command line when
\* callers is empty).
Execute(t, ctx, callers) ==
    LET inv == NumCalls + 1
        c == IF callers = <<>> THEN [inv |-> 0, s |-> "none", i |-> 0, j |-> 0]
             ELSE callers[Len(callers)]
        w == WithTask(heap, ctx, t)
        call == [Ev("call", inv) EXCEPT !.key = t, !.par = c.inv, !.s = c.s,
                                        !.i = c.i, !.j = c.j]
        e(kind) == NewErr(kind, 0, Len(log) + 2)
        check(o, err) == [Ev("check", inv) EXCEPT !.key = o, !.err = err]
    IN  /\ heap' = w.heap
        /\ UNCHANGED <<root, argv, node, decoded, env, ctxs>>
        /\ \E o \in EntryOutcomes :
            CASE o = "patherr" ->
                    Returning(callers, inv, e("cachepath"),
                              <<call, check(o, e("cachepath"))>>)
              [] o = "checkerr" ->
                    CheckFailed(callers, inv, t, w.slice,
                                <<call, check(o, e("uptodate"))>>, e("uptodate"))
              [] o = "uptodate" ->
                    UpToDate(callers, inv, t, w.slice, <<call, check(o, NoErr)>>)
              [] o = "stale" ->
                    StartTask(callers, inv, t, w.slice, <<call, check(o, NoErr)>>)

\* A faulty variant of Invoke: only too few arguments are refused.
InvokeAtLeast ==
    /\ frames = <<>>
    /\ log = <<>>
    /\ result = Pending
    /\ IF Len(Catalogue[root].Args) > Len(argv)
       THEN /\ result' = NewErr("args", Len(argv), 0)
            /\ UNCHANGED <<root, argv, node, decoded, frames, heap, env, log, ctxs>>
       ELSE Execute(root, NilSlice, <<>>)

\* createExecuteCommand's action: the command line runs the root task if
\* it passes as many arguments as the task declares, else returns
\* "task ... requires exactly %d args, got %d" without calling Execute.
Invoke ==
    /\ frames = <<>>
    /\ log = <<>>
    /\ result = Pending
    /\ IF Len(Catalogue[root].Args) # Len(argv)
       THEN /\ result' = NewErr("args", Len(argv), 0)
            /\ UNCHANGED <<root, argv, node, decoded, frames, heap, env, log, ctxs>>
       ELSE Execute(root, NilSlice, <<>>)

\* A faulty variant of RunItem: an item whose guard does not pass ends the
\* list, without an error.
RunItemSkipEndsList ==
    /\ frames # <<>>
    /\ Top.pc = "loop"
    /\ LET f == Top
           e == NewErr("when", 0, Len(log) + 1)
           ev(o) == [Ev("guard", f.inv) EXCEPT !.s = f.s, !.i = f.i, !.key = o,
                                               !.err = IF o = "err" THEN e ELSE NoErr]
       IN  \E o \in {"pass", "skip", "err"} :
             /\ log' = Append(log, ev(o))
             /\ frames' = [frames EXCEPT ![Len(frames)] =
                    CASE o = "pass" -> AfterGuard(f)
                      [] o = "skip" ->
                            [f EXCEPT !.pc = IF f.s = "running" THEN "cache"
                                             ELSE "completed"]
                      [] o = "err" -> Fail(f, e)]
    /\ UNCHANGED <<root, argv, node, decoded, heap, env, result, ctxs>>

\* t.run up to the answer of r.shouldRun: run the item, skip it, or fail.
RunItem ==
    /\ frames # <<>>
    /\ Top.pc = "loop"
    /\ LET f == Top
           e == NewErr("when", 0, Len(log) + 1)
           ev(o) == [Ev("guard", f.inv) EXCEPT !.s = f.s, !.i = f.i, !.key = o,
                                               !.err = IF o = "err" THEN e ELSE NoErr]
       IN  \E o \in {"pass", "skip", "err"} :
             /\ log' = Append(log, ev(o))
             /\ frames' = [frames EXCEPT ![Len(frames)] =
                    CASE o = "pass" -> AfterGuard(f)
                      [] o = "skip" -> NextItem(f)
                      [] o = "err" -> Fail(f, e)]
    /\ UNCHANGED <<root, argv, node, decoded, heap, env, result, ctxs>>

\* One turn of runCommands' loop: print the command unless quiet, run it.
RunCommand ==
    /\ frames # <<>>
    /\ Top.pc = "commands"
    /\ LET f == Top
           cmd == CurItem(f).Command[f.j]
           stack == Elems(heap, f.ctx)
           at(e) == [e EXCEPT !.s = f.s, !.i = f.i, !.j = f.j, !.key = cmd.Exec]
           print == IF shouldBeQuiet(cmd, stack) THEN <<>>
                    ELSE <<[at(Ev("print", f.inv)) EXCEPT !.names = TaskNames(stack)]>>
       IN  \E code \in {0} \cup ExitCodes :
             LET e == NewErr("exit", code, Len(log) + 1)
                 exec == [at(Ev("exec", f.inv)) EXCEPT !.code = code]
             IN  IF code = 0
                 THEN /\ log' = log \o print \o <<exec>>
                      /\ frames' = [frames EXCEPT ![Len(frames)] =
                            IF f.j < Len(CurItem(f).Command)
                            THEN [f EXCEPT !.j = f.j + 1]
                            ELSE AfterCommands(f)]
                 ELSE /\ log' = log \o print \o
                                <<exec, [at(Ev("cmderr", f.inv)) EXCEPT !.err = e]>>
                      /\ frames' = [frames EXCEPT ![Len(frames)] = Fail(f, e)]
    /\ UNCHANGED <<root, argv, node, decoded, heap, env, result, ctxs>>

\* One turn of runSubTasks' loop: r.Tasks[j].Execute(ctx).
RunSubTask ==
    /\ frames # <<>>
    /\ Top.pc = "subtasks"
    /\ Len(frames) < MaxDepth
    /\ Execute(CurItem(Top).Tasks[Top.j], Top.ctx, frames)

\* A faulty variant of Unsetenv: the variable is set to the empty string.
UnsetenvToEmpty(e, key) == [e EXCEPT ![key] = ""]

\* os.Unsetenv and os.Setenv on the process environment e; a variable that
\* is unset holds Null.
Unsetenv(e, key) == [e EXCEPT ![key] = Null]

Setenv(e, key, value) == [e EXCEPT ![key] = value]

\* The orders in which range may go through the entries of map m.
Orders(m) ==
    {o \in [1..Cardinality(DOMAIN m) -> DOMAIN m] :
        \A a, b \in DOMAIN o : a # b => o[a] # o[b]}

\* runEnvironment's loop going through the entries of m in the given
\* order: the environment it leaves, and whether it got through (the
\* first key the system refuses ends the loop with an error).
RECURSIVE ApplyEntries(_, _, _)
ApplyEntries(e, m, order) ==
    IF order = <<>> THEN [env |-> e, ok |-> TRUE]
    ELSE LET key == Head(order)
         IN  IF key \in InvalidKeys THEN [env |-> e, ok |-> FALSE]
             ELSE ApplyEntries(IF m[key] = Null THEN Unsetenv(e, key)
                               ELSE Setenv(e, key, m[key]),
                               m, Tail(order))

\* runEnvironment: the entries are applied in the map's iteration order,
\* whatever it is; an error ends the item.
RunEnvironment ==
    /\ frames # <<>>
    /\ Top.pc = "environment"
    /\ LET f == Top
           m == CurItem(f).SetEnvironment
       IN  \E order \in Orders(m) :
             LET r == ApplyEntries(env, m, order)
                 e == IF r.ok THEN NoErr ELSE NewErr("setenv", 0, Len(log) + 1)
                 ev == [Ev("environment", f.inv) EXCEPT !.s = f.s, !.i = f.i, !.err = e]
             IN  /\ log' = Append(log, ev)
                 /\ env' = r.env
                 /\ frames' = [frames EXCEPT ![Len(frames)] =
                                  IF r.ok THEN NextItem(f) ELSE Fail(f, e)]
    /\ UNCHANGED <<root, argv, node, decoded, heap, result, ctxs>>

\* t.cache after the last run item returned nil.
CacheWrite ==
    /\ frames # <<>>
    /\ Top.pc = "cache"
    /\ LET f == Top
       IN  \E ok \in BOOLEAN :
             LET e == IF ok THEN NoErr
                      ELSE Wrapped("caching task", NewErr("cache", 0, Len(log) + 1))
             IN  /\ log' = Append(log, [Ev("cache", f.inv) EXCEPT !.err = e])
                 /\ frames' = [frames EXCEPT ![Len(frames)] =
                                  [f EXCEPT !.err = e, !.pc = "defer"]]
    /\ UNCHANGED <<root, argv, node, decoded, heap, env, result, ctxs>>

\* A faulty variant of RunFinally: the two deferred calls run in the order
\* they were registered, PrintTaskCompleted before runFinally.
RunFinallyAfterCompleted ==
    /\ frames # <<>>
    /\ Top.pc = "defer"
    /\ LET f == Top
           enter == [Ev("runFinally", f.inv) EXCEPT !.err = f.err]
       IN  IF Len(Catalogue[f.t].Finally) = 0
           THEN /\ log' = log \o <<Ev("completed", f.inv), enter>>
                /\ frames' = [frames EXCEPT ![Len(frames)] =
                                 [f EXCEPT !.pc = "completed"]]
           ELSE /\ log' = log \o <<Ev("completed", f.inv), enter, Ev("finally", f.inv)>>
                /\ frames' = [frames EXCEPT ![Len(frames)] =
                                 [f EXCEPT !.pc = "loop", !.s = "finally",
                                           !.i = 1, !.j = 0]]
    /\ UNCHANGED <<root, argv, node, decoded, heap, env, result, ctxs>>

\* The deferred runFinally starts: nothing to do without finally items,
\* else the header is printed and the finally loop begins.
RunFinally ==
    /\ frames # <<>>
    /\ Top.pc = "defer"
    /\ LET f == Top
           enter == [Ev("runFinally", f.inv) EXCEPT !.err = f.err]
       IN  IF Len(Catalogue[f.t].Finally) = 0
           THEN /\ log' = Append(log, enter)
                /\ frames' = [frames EXCEPT ![Len(frames)] =
                                 [f EXCEPT !.pc = "completed"]]
           ELSE /\ log' = log \o <<enter, Ev("finally", f.inv)>>
                /\ frames' = [frames EXCEPT ![Len(frames)] =
                                 [f EXCEPT !.pc = "loop", !.s = "finally",
                                           !.i = 1, !.j = 0]]
    /\ UNCHANGED <<root, argv, node, decoded, heap, env, result, ctxs>>

\* The deferred PrintTaskCompleted, and Execute returns its named result.
Completed ==
    /\ frames # <<>>
    /\ Top.pc = "completed"
    /\ Returning(SubSeq(frames, 1, Len(frames) - 1), Top.inv, Top.err,
                 <<Ev("completed", Top.inv)>>)
    /\ UNCHANGED <<root, argv, node, decoded, heap, env, ctxs>>

Init ==
    /\ root \in Roots
    /\ argv \in ArgLists
    /\ node = NoNode
    /\ decoded = NotDecoded
    /\ frames = <<>>
    /\ heap = <<>>
    /\ env = [k \in EnvKeys |-> "0"]
    /\ log = <<>>
    /\ result = Pending
    /\ ctxs = <<>>

Next ==
    \/ Invoke
    \/ RunItem
    \/ RunCommand
    \/ RunSubTask
    \/ RunEnvironment
    \/ CacheWrite
    \/ RunFinally
    \/ Completed

Spec == Init /\ [][Next]_vars

\* ------------------------------------------- Contexts built by WithTask

\* The tasks pushed under SpecCtx.
CtxTasks == {"build", "leaf"}

\* c2 := c.WithTask(t) for any Context c built so far; c stays in use.
PushTask ==
    /\ Len(ctxs) <= MaxPushes
    /\ \E k \in DOMAIN ctxs, t \in CtxTasks :
         LET w == WithTask(heap, ctxs[k].taskStack, t)
         IN  /\ heap' = w.heap
             /\ ctxs' = Append(ctxs, [taskStack |-> w.slice, from |-> k, t |-> t])
    /\ UNCHANGED <<root, argv, node, decoded, frames, env, log, result>>

InitCtx ==
    /\ root = "build"
    /\ argv = <<>>
    /\ node = NoNode
    /\ decoded = NotDecoded
    /\ frames = <<>>
    /\ heap = <<>>
    /\ env = [k \in EnvKeys |-> "0"]
    /\ log = <<>>
    /\ result = Pending
    /\ ctxs = << [taskStack |-> NilSlice, from |-> 0, t |-> "none"] >>

NextCtx == PushTask

SpecCtx == InitCtx /\ [][NextCtx]_vars

\* ------------------------------------ task definitions through UnmarshalYAML

\* yaml hands the node of a task to Task.UnmarshalYAML.
Decode ==
    /\ decoded = NotDecoded
    /\ \E o \in DefOutcomes : decoded' = UnmarshalYAML(node, o)
    /\ UNCHANGED <<root, argv, node, frames, heap, env, log, result, ctxs>>

InitYaml ==
    /\ root = "build"
    /\ argv = <<>>
    /\ frames = <<>>
    /\ heap = <<>>
    /\ env = [k \in EnvKeys |-> "0"]
    /\ log = <<>>
    /\ result = Pending
    /\ ctxs = <<>>
    /\ node \in YamlNodes
    /\ decoded = NotDecoded

NextYaml == Decode

SpecYaml == InitYaml /\ [][NextYaml]_vars

\* ------------------------------------------------------ reading the log

\* Positions of the log's entries of kind ev made by activation inv.
At(ev, inv) == {k \in DOMAIN log : log[k].ev = ev /\ log[k].inv = inv}

\* The activations that have been entered, and those that have returned.
Invs == 1..NumCalls

Returned(inv) == At("return", inv) # {}

\* What activation inv returned.
RetOf(inv) == log[CHOOSE k \in At("return", inv) : TRUE].err

\* The task activation inv executes.
TaskOf(inv) == Catalogue[log[CHOOSE k \in At("call", inv) : TRUE].key]

\* The activation was cut short by the cache (PrintTaskSkipped).
Skipped(inv) == At("skipped", inv) # {}

\* The activation got past the cache check (PrintTask).
Started(inv) == At("start", inv) # {}

\* The call entry of activation inv: who called it, and from where.
CallOf(inv) == log[CHOOSE k \in At("call", inv) : TRUE]

\* The kinds of entry activation inv has left in the log.
KindsOf(inv) == {log[k].ev : k \in {m \in DOMAIN log : log[m].inv = inv}}

\* The activations called from activation inv.
Children(inv) == {c \in Invs : CallOf(c).par = inv}

\* The tasks the items of task t name as sub-tasks.
Calls(t) ==
    LET of(list) == UNION {{list[i].Tasks[j] : j \in DOMAIN list[i].Tasks} :
                             i \in DOMAIN list}
    IN  of(Catalogue[t].RunList) \cup of(Catalogue[t].Finally)

RECURSIVE Closure(_, _)
Closure(S, n) ==
    IF n = 0 THEN S ELSE Closure(S \cup UNION {Calls(t) : t \in S}, n - 1)

\* The tasks reachable from t through sub-task references.
Below(t) == Closure(Calls(t), Cardinality(CatalogueNames))

\* No task that executing t can reach refers back to itself.
CycleFree(t) == \A u \in {t} \cup Below(t) : u \notin Below(u)

\* ------------------------------------------------------------------ claims

\* The stack a Context of SpecCtx was built to hold: its origin's stack
\* followed by the task pushed.
RECURSIVE Pushed(_)
Pushed(k) ==
    IF ctxs[k].from = 0 THEN <<>>
    ELSE Append(Pushed(ctxs[k].from), ctxs[k].t)

\* C10: WithTask never mutates or aliases the receiver's stack: every
\* Context ever built, read at any later time, shows exactly the stack of
\* the Context it was pushed from followed by the task pushed, whatever
\* other pushes were made from the same or any other Context since.
C10_WithTaskNoAlias ==
    \A k \in DOMAIN ctxs : Elems(heap, ctxs[k].taskStack) = Pushed(k)

\* Two different tasks were pushed from one Context whose backing array
\* has room left after its last element.
C10_Witness ==
    \E a, b \in DOMAIN ctxs :
        /\ a < b
        /\ ctxs[a].from = ctxs[b].from
        /\ ctxs[a].from > 0
        /\ ctxs[a].t # ctxs[b].t
        /\ ctxs[ctxs[a].from].taskStack.len < ctxs[ctxs[a].from].taskStack.cap

\* C4: an activation the cache check found up to date logs the task as
\* skipped, returns nil and does nothing else: no task start, no run item,
\* no command, no sub-task, no environment mutation, no finally, no cache
\* write, no task-completed entry.
C4_SkipRunsNothing ==
    \A inv \in Invs :
        Skipped(inv) =>
            /\ Returned(inv)
            /\ RetOf(inv) = NoErr
            /\ KindsOf(inv) = {"call", "check", "skipped", "return"}
            /\ Children(inv) = {}

\* A sub-task was found up to date and its caller went on to run a command.
C4_Witness ==
    /\ CycleFree(root)
    /\ \E inv \in Invs :
        /\ Skipped(inv)
        /\ CallOf(inv).par # 0
        /\ \E k \in At("exec", CallOf(inv).par) :
              k > CHOOSE m \in At("skipped", inv) : TRUE

\* C5 as claimed: a sub-task whose task is already on the Context stack is
\* not executed, so no activation's stack ever holds a task twice.
C5_NoTaskTwiceOnStack ==
    \A n \in DOMAIN frames :
        LET stack == Elems(heap, frames[n].ctx)
        IN  \A a, b \in DOMAIN stack : stack[a] = stack[b] => a = b

\* C8 as claimed (for a root task free of sub-task cycles): an error of
\* the up-to-date check is not fatal: the task
\* is started and Execute does not return that error.
C8_CheckErrorNotFatal ==
    CycleFree(root) =>
    \A inv \in Invs :
        \A k \in At("check", inv) :
            log[k].key = "checkerr" =>
                /\ Started(inv)
                /\ Returned(inv) => RetOf(inv).src # log[k].err.src

\* C8 amended: an error of the up-to-date check is fatal: Execute returns
\* it at once, wrapped as "checking cache: ...", without starting the task:
\* no run item, no finally, no cache write, no start or completed entry.
C8_CheckErrorFatal ==
    \A inv \in Invs :
        \A k \in At("check", inv) :
            log[k].key = "checkerr" =>
                /\ Returned(inv)
                /\ RetOf(inv) = Wrapped("checking cache", log[k].err)
                /\ KindsOf(inv) = {"call", "check", "return"}
                /\ Children(inv) = {}

\* The up-to-date check of a sub-task failed and the error reached the
\* command line.
C8_Witness ==
    /\ CycleFree(root)
    /\ result.kind = "uptodate"
    /\ \E inv \in Invs : CallOf(inv).par # 0 /\ Returned(inv) /\ RetOf(inv) = result

\* Where list s ("running": RunList, "finally": Finally) of activation inv
\* had a run item fail: a guard error, a failed command, a failed
\* environment mutation, or a sub-task of the item returning an error.
FailsOf(inv, s) ==
    {k \in DOMAIN log :
        /\ log[k].err # NoErr
        /\ \/ /\ log[k].ev \in {"guard", "cmderr", "environment"}
              /\ log[k].inv = inv
              /\ log[k].s = s
           \/ /\ log[k].ev = "return"
              /\ CallOf(log[k].inv).par = inv
              /\ CallOf(log[k].inv).s = s}

\* Where activation inv did something for an item of its list s: evaluated
\* the guard, printed or ran a command, called a sub-task, or entered
\* runEnvironment.
Acts(inv, s) ==
    {k \in DOMAIN log :
        /\ log[k].s = s
        /\ \/ /\ log[k].ev \in {"guard", "print", "exec", "cmderr", "environment"}
              /\ log[k].inv = inv
           \/ /\ log[k].ev = "call"
              /\ log[k].par = inv}

Min(S) == CHOOSE x \in S : \A y \in S : x <= y

\* C6: the first error of a run item of the run list ends the run list and
\* is the task's error: nothing of the run list happens after it, the cache
\* is never written, Execute returns exactly that error, and the finally
\* list still runs (its first item's guard is evaluated).
C6_FirstRunErrorAborts ==
    \A inv \in Invs :
        \A k \in FailsOf(inv, "running") :
            /\ \A m \in Acts(inv, "running") : m <= k
            /\ At("cache", inv) = {}
            /\ Returned(inv) =>
                /\ RetOf(inv) = log[k].err
                /\ \E r \in At("runFinally", inv) : r > k
                /\ Len(TaskOf(inv).Finally) > 0 =>
                      \E g \in Acts(inv, "finally") :
                          log[g].ev = "guard" /\ log[g].i = 1 /\ g > k

\* The first of two run items failed in a command, a finally item failed
\* as well, and Execute has returned.
C6_Witness ==
    /\ CycleFree(root)
    /\ \E inv \in Invs :
        /\ Returned(inv)
        /\ Len(TaskOf(inv).RunList) > 1
        /\ \E k \in FailsOf(inv, "running") : log[k].ev = "cmderr" /\ log[k].i = 1
        /\ FailsOf(inv, "finally") # {}

\* C2 as claimed (for a root task free of sub-task cycles): every
\* activation that returns without having been
\* cache-skipped has entered its finally list exactly once.
C2_FinallyOnEveryExit ==
    CycleFree(root) =>
    \A inv \in Invs :
        (Returned(inv) /\ ~Skipped(inv)) =>
            Cardinality(At("runFinally", inv)) = 1

\* C2 amended: every activation that returns after the task was started
\* (the cache path and the up-to-date check succeeded and the task was
\* stale) has entered its finally list exactly once, after everything of
\* the run list and the cache write, and before everything of the finally
\* list; no activation enters it twice.
C2_FinallyOnceAfterStart ==
    \A inv \in Invs :
        /\ Cardinality(At("runFinally", inv)) <= 1
        /\ Cardinality(At("finally", inv)) <= 1
        /\ (Returned(inv) /\ Started(inv)) =>
              \E r \in At("runFinally", inv) :
                  /\ \A m \in Acts(inv, "running") \cup At("cache", inv) : m < r
                  /\ \A m \in Acts(inv, "finally") : m > r
                  /\ Len(TaskOf(inv).Finally) > 0 =>
                        /\ At("finally", inv) = {r + 1}
                        /\ \E g \in Acts(inv, "finally") :
                              log[g].ev = "guard" /\ log[g].i = 1

\* An activation returned after its cache write failed and its finally
\* list ran a command.
C2_Witness ==
    /\ CycleFree(root)
    /\ \E inv \in Invs :
        /\ Returned(inv)
        /\ \E c \in At("cache", inv) : log[c].err # NoErr
        /\ \E x \in At("exec", inv) : log[x].s = "finally"

\* C3: the finally list never overwrites the task's error. An error left
\* by the run list or by the cache write is what Execute returns, whatever
\* the finally list does; a finally item's error is returned only when
\* there was none before, and then it is the first one. A run-list command
\* failing with status 2 has the finally list run and Execute return that
\* status-2 error.
C3_FinallyKeepsError ==
    \A inv \in Invs :
        Returned(inv) =>
            /\ \A r \in At("runFinally", inv) :
                  /\ log[r].err # NoErr => RetOf(inv) = log[r].err
                  /\ RetOf(inv) # log[r].err =>
                        /\ log[r].err = NoErr
                        /\ FailsOf(inv, "finally") # {}
                  /\ (log[r].err = NoErr /\ FailsOf(inv, "finally") # {}) =>
                        RetOf(inv) = log[Min(FailsOf(inv, "finally"))].err
                  /\ (log[r].err = NoErr /\ FailsOf(inv, "finally") = {}) =>
                        RetOf(inv) = NoErr
            /\ \A c \in At("cache", inv) :
                  log[c].err # NoErr => RetOf(inv) = log[c].err
            /\ \A k \in At("cmderr", inv) :
                  (log[k].s = "running" /\ log[k].err.code = 2) =>
                      /\ RetOf(inv) = log[k].err
                      /\ RetOf(inv).kind = "exit"
                      /\ \E r \in At("runFinally", inv) : r > k

\* A run-list command exited with status 2, a finally command failed with
\* another status, and Execute has returned.
C3_Witness ==
    /\ CycleFree(root)
    /\ \E inv \in Invs :
        /\ Returned(inv)
        /\ \E k \in At("cmderr", inv) : log[k].s = "running" /\ log[k].err.code = 2
        /\ \E k \in At("cmderr", inv) : log[k].s = "finally" /\ log[k].err.code = 1

\* C7 as claimed (for a root task free of sub-task cycles): an activation
\* that returns an error, whatever raised it,
\* has not written the cache marker.
C7_NoCacheOnAnyError ==
    CycleFree(root) =>
    \A inv \in Invs :
        (Returned(inv) /\ RetOf(inv) # NoErr) =>
            \A c \in At("cache", inv) : log[c].err # NoErr

\* C7 amended: the cache is written only after every run item of the run
\* list was evaluated without error, and before the finally list. So an
\* activation that returns an error of a run item, of the cache path or of
\* the up-to-date check has not written it; one that returns an error
\* after writing it successfully returns the error of a finally item.
C7_CacheAfterRunListOnly ==
    \A inv \in Invs :
        \A c \in At("cache", inv) :
            /\ FailsOf(inv, "running") = {}
            /\ \A m \in Acts(inv, "running") : m < c
            /\ \A m \in Acts(inv, "finally") : m > c
            /\ \A i \in 1..Len(TaskOf(inv).RunList) :
                  \E g \in Acts(inv, "running") :
                      log[g].ev = "guard" /\ log[g].i = i /\ log[g].key # "err"
            /\ (log[c].err = NoErr /\ Returned(inv) /\ RetOf(inv) # NoErr) =>
                  /\ FailsOf(inv, "finally") # {}
                  /\ RetOf(inv) = log[Min(FailsOf(inv, "finally"))].err

\* The cache was written, then a finally item failed, and Execute has
\* returned that error.
C7_Witness ==
    /\ CycleFree(root)
    /\ \E inv \in Invs :
        /\ Returned(inv)
        /\ RetOf(inv) # NoErr
        /\ \E c \in At("cache", inv) : log[c].err = NoErr

\* The activations above inv on the call chain.
RECURSIVE Ancestors(_)
Ancestors(inv) ==
    IF CallOf(inv).par = 0 THEN {}
    ELSE {CallOf(inv).par} \cup Ancestors(CallOf(inv).par)

\* Those of them that inv was reached from through run lists only.
RECURSIVE RunAncestors(_)
RunAncestors(inv) ==
    IF CallOf(inv).par = 0 \/ CallOf(inv).s # "running" THEN {}
    ELSE {CallOf(inv).par} \cup RunAncestors(CallOf(inv).par)

\* C9 as claimed (for a root task free of sub-task cycles): whenever a
\* command of a sub-task's activation fails with
\* error e, that activation and every activation above it return exactly e.
C9_AnyCommandErrorReachesTop ==
    CycleFree(root) =>
    \A k \in DOMAIN log :
        (log[k].ev = "cmderr" /\ CallOf(log[k].inv).par # 0) =>
            \A a \in {log[k].inv} \cup Ancestors(log[k].inv) :
                Returned(a) => RetOf(a) = log[k].err

\* C9 amended: when a command of a run list fails with error e in an
\* activation reached through run lists only, that activation and every
\* activation above it return exactly e, none of them does anything more
\* for its run list, and each of them runs its finally list, the inner
\* activation's before the outer's.
C9_RunErrorPropagatesUnchanged ==
    \A k \in DOMAIN log :
        (log[k].ev = "cmderr" /\ log[k].s = "running") =>
            \A a \in {log[k].inv} \cup RunAncestors(log[k].inv) :
                /\ \A m \in Acts(a, "running") : m <= k
                /\ Returned(a) =>
                    /\ RetOf(a) = log[k].err
                    /\ \E r \in At("runFinally", a) :
                          /\ r > k
                          /\ \A b \in Children(a) \cap
                                      ({log[k].inv} \cup RunAncestors(log[k].inv)) :
                                \E q \in At("runFinally", b) : q < r

\* A run-list command failed two sub-task calls below the root, and the
\* error has reached the command line.
C9_Witness ==
    /\ CycleFree(root)
    /\ \E k \in DOMAIN log :
        /\ log[k].ev = "cmderr"
        /\ log[k].s = "running"
        /\ Cardinality(RunAncestors(log[k].inv)) = 2
        /\ result = log[k].err

\* The commands activation inv has run, by name, in the order it ran them.
ExecSeq(inv) ==
    LET x == SelectSeq(log, LAMBDA e : e.ev = "exec" /\ e.inv = inv)
    IN  [n \in DOMAIN x |-> x[n].key]

TaskList(inv, s) ==
    IF s = "running" THEN TaskOf(inv).RunList ELSE TaskOf(inv).Finally

\* The guard of item i of list s of activation inv was evaluated and passed.
GuardPassed(inv, s, i) ==
    \E g \in Acts(inv, s) :
        log[g].ev = "guard" /\ log[g].inv = inv /\ log[g].i = i /\ log[g].key = "pass"

\* Item i of list s of activation inv failed.
ItemFailed(inv, s, i) ==
    \E k \in FailsOf(inv, s) :
        IF log[k].ev = "return" THEN CallOf(log[k].inv).i = i ELSE log[k].i = i

\* All the commands of an item, by name.
AllCommands(item) == [j \in DOMAIN item.Command |-> item.Command[j].Exec]

\* The commands of item i up to and including the first that exited non-zero.
CutCommands(inv, s, i) ==
    LET cmds == TaskList(inv, s)[i].Command
        bad == {j \in DOMAIN cmds :
                  \E x \in At("exec", inv) :
                      log[x].s = s /\ log[x].i = i /\ log[x].j = j /\ log[x].code # 0}
    IN  [j \in 1..(IF bad = {} THEN Len(cmds) ELSE Min(bad)) |-> cmds[j].Exec]

\* What list s is to run from item i on: the cut command list of every item
\* whose guard passes, up to the first item that fails.
RECURSIVE ExpectedFrom(_, _, _)
ExpectedFrom(inv, s, i) ==
    IF i > Len(TaskList(inv, s)) THEN <<>>
    ELSE (IF GuardPassed(inv, s, i) THEN CutCommands(inv, s, i) ELSE <<>>)
         \o (IF ItemFailed(inv, s, i) THEN <<>> ELSE ExpectedFrom(inv, s, i + 1))

\* What list s is to run as C1 is worded: the whole command list of every
\* item whose guard passes.
RECURSIVE ClaimedFrom(_, _, _)
ClaimedFrom(inv, s, i) ==
    IF i > Len(TaskList(inv, s)) THEN <<>>
    ELSE (IF GuardPassed(inv, s, i) THEN AllCommands(TaskList(inv, s)[i]) ELSE <<>>)
         \o ClaimedFrom(inv, s, i + 1)

\* C1 as claimed (for a root task free of sub-task cycles): an activation
\* that was not cache-skipped has run the
\* whole command list of every run item whose guard passed, then, if any
\* run item was attempted, the commands of the finally list.
C1_WholeCommandLists ==
    CycleFree(root) =>
    \A inv \in Invs :
        (Returned(inv) /\ ~Skipped(inv)) =>
            ExecSeq(inv) =
                ClaimedFrom(inv, "running", 1)
                \o (IF Acts(inv, "running") # {}
                    THEN ClaimedFrom(inv, "finally", 1) ELSE <<>>)

\* C1 amended: the commands an activation has run are, for each run item
\* of the run list whose guard passed, its command list in declared order
\* up to and including the first command that fails, the run list ending
\* with the first item that fails; followed, whenever the task was started,
\* by the same for the finally list, whose first guard is always evaluated.
\* An activation that returns without starting the task runs no command.
C1_CommandSequence ==
    \A inv \in Invs :
        Returned(inv) =>
            IF Started(inv)
            THEN /\ ExecSeq(inv) =
                        ExpectedFrom(inv, "running", 1) \o ExpectedFrom(inv, "finally", 1)
                 /\ Len(TaskOf(inv).Finally) > 0 =>
                        \E g \in Acts(inv, "finally") : log[g].ev = "guard" /\ log[g].i = 1
            ELSE ExecSeq(inv) = <<>>

\* The first command of a two-command run item failed, the second did not
\* run, a finally command ran, and Execute has returned.
C1_Witness ==
    /\ CycleFree(root)
    /\ \E inv \in Invs :
        /\ Returned(inv)
        /\ \E k \in At("cmderr", inv) :
              /\ log[k].s = "running"
              /\ log[k].j = 1
              /\ Len(TaskList(inv, "running")[log[k].i].Command) = 2
        /\ \E x \in At("exec", inv) : log[x].s = "finally"

\* ------------------------------------------------------ quiet inheritance

\* The command an entry of the log is about.
CmdOf(k) == TaskList(log[k].inv, log[k].s)[log[k].i].Command[log[k].j]

\* Entries k and m of the log are about the same command of the same item
\* of the same activation.
SameCommand(k, m) ==
    /\ log[k].inv = log[m].inv
    /\ log[k].s = log[m].s
    /\ log[k].i = log[m].i
    /\ log[k].j = log[m].j

\* The command run at entry x had its print form logged just before.
Printed(x) == x > 1 /\ log[x - 1].ev = "print" /\ SameCommand(x - 1, x)

\* The activations whose tasks are on the Context stack while inv runs:
\* inv itself and the activations above it on the sub-task chain.
Chain(inv) == {inv} \cup Ancestors(inv)

\* C11: a command that is run has its print form logged, just before it
\* runs, if and only if the command's own quiet flag is unset and no task
\* of the executing activation's chain (the task itself and every caller
\* above it) has quiet set; and every print form logged is followed by the
\* run of that command, so quietness never keeps a command from running.
C11_QuietInheritance ==
    /\ \A x \in DOMAIN log :
          log[x].ev = "exec" =>
              (Printed(x) <=>
                  /\ ~CmdOf(x).Quiet
                  /\ \A a \in Chain(log[x].inv) : ~TaskOf(a).Quiet)
    /\ \A p \in DOMAIN log :
          log[p].ev = "print" =>
              /\ p < Len(log)
              /\ log[p + 1].ev = "exec"
              /\ SameCommand(p, p + 1)

\* A command that is not quiet, of a task that is not quiet, has run
\* unprinted because a task further up the chain is quiet; a command of
\* the root task has run printed, and a quiet command of a chain without
\* quiet tasks has run unprinted.
C11_Witness ==
    /\ CycleFree(root)
    /\ \E x \in DOMAIN log :
          /\ log[x].ev = "exec"
          /\ ~CmdOf(x).Quiet
          /\ ~TaskOf(log[x].inv).Quiet
          /\ \E a \in Ancestors(log[x].inv) : TaskOf(a).Quiet
          /\ ~Printed(x)
    /\ \E x \in DOMAIN log :
          log[x].ev = "exec" /\ Printed(x) /\ CallOf(log[x].inv).par = 0
    /\ \E x \in DOMAIN log :
          /\ log[x].ev = "exec"
          /\ CmdOf(x).Quiet
          /\ \A a \in Chain(log[x].inv) : ~TaskOf(a).Quiet
          /\ ~Printed(x)

\* ------------------------------------------------- sub-tasks, depth first

\* Where activation inv was called, and where it returned (past the end of
\* the log while it has not).
CallAt(inv) == CHOOSE k \in At("call", inv) : TRUE

ReturnAt(inv) ==
    IF Returned(inv) THEN CHOOSE k \in At("return", inv) : TRUE ELSE Len(log) + 1

\* Entry x of the log comes before entry y in the declared order of one
\* list: an earlier item, or the same item and an earlier position in it.
DeclaredBefore(x, y) ==
    \/ log[x].i < log[y].i
    \/ log[x].i = log[y].i /\ log[x].j < log[y].j

\* C12: a sub-task runs to completion before its caller proceeds. From the
\* call of a sub-task's Execute to its return the caller leaves no entry in
\* the log (no guard, command, environment mutation, cache write, finally
\* or completion entry) and calls no other sub-task; everything an
\* activation does lies between its call and its return, and the call and
\* return of a sub-task lie between those of its caller, so that the whole
\* of the sub-task (run list, nested sub-tasks, finally list, completion
\* entry) is over when the caller goes on. Within one list of an
\* activation, commands run, and sub-tasks are called, strictly in
\* declared order of item and of position in the item.
C12_SubTasksDepthFirst ==
    /\ \A c \in Invs :
          LET p == CallOf(c).par
              from == CallAt(c)
              to == ReturnAt(c)
          IN  /\ \A m \in At("call", c) \cup At("return", c) \cup At("start", c)
                          \cup At("completed", c) \cup At("runFinally", c)
                          \cup Acts(c, "running") \cup Acts(c, "finally") :
                     from <= m /\ m <= to
              /\ p # 0 =>
                  /\ CallAt(p) < from
                  /\ to <= ReturnAt(p)
                  /\ Returned(p) => to < ReturnAt(p)
                  /\ \A m \in (from + 1)..(to - 1) :
                        /\ log[m].inv # p
                        /\ ~(log[m].ev = "call" /\ log[m].par = p)
    /\ \A inv \in Invs, s \in {"running", "finally"} :
          /\ \A x, y \in {k \in At("exec", inv) : log[k].s = s} :
                x < y => DeclaredBefore(x, y)
          /\ \A x, y \in {k \in DOMAIN log :
                            log[k].ev = "call" /\ log[k].par = inv /\ log[k].s = s} :
                x < y => DeclaredBefore(x, y)

\* The first item of the root's run list called two sub-tasks, the first
\* of which called a sub-task of its own and ran a command of its finally
\* list; both have returned, and the root has gone on to run a command of
\* its next item.
C12_Witness ==
    /\ CycleFree(root)
    /\ \E c1, c2 \in Children(1) :
          /\ CallOf(c1).i = 1 /\ CallOf(c1).j = 1
          /\ CallOf(c2).i = 1 /\ CallOf(c2).j = 2
          /\ Returned(c1) /\ Returned(c2)
          /\ \E d \in Children(c1) : Returned(d)
          /\ \E x \in At("exec", c1) : log[x].s = "finally"
          /\ \E x \in At("exec", 1) : log[x].i = 2 /\ x > ReturnAt(c2)

\* ------------------------------------------------- the parts of a run item

\* Where activation inv ran commands of item i of its list s, called the
\* item's sub-tasks, and entered runEnvironment for it.
ExecsOf(inv, s, i) == {k \in At("exec", inv) : log[k].s = s /\ log[k].i = i}

CallsOf(inv, s, i) ==
    {k \in DOMAIN log :
        log[k].ev = "call" /\ log[k].par = inv /\ log[k].s = s /\ log[k].i = i}

EnvsOf(inv, s, i) == {k \in At("environment", inv) : log[k].s = s /\ log[k].i = i}

\* Before entry k, every command of the item up to position n had run and
\* exited with status 0.
CommandsDone(inv, s, i, n, k) ==
    \A j \in 1..n :
        \E x \in ExecsOf(inv, s, i) : x < k /\ log[x].j = j /\ log[x].code = 0

\* Before entry k, every sub-task of the item up to position n had been
\* called and had returned nil.
SubTasksDone(inv, s, i, n, k) ==
    \A j \in 1..n :
        \E c \in CallsOf(inv, s, i) :
            /\ log[c].j = j
            /\ Returned(log[c].inv)
            /\ ReturnAt(log[c].inv) < k
            /\ RetOf(log[c].inv) = NoErr

\* C13: the parts of a run item are dispatched only once its guard has
\* passed, in the order commands, sub-tasks, environment, and each part
\* only after everything before it succeeded: a command runs only after
\* the item's earlier commands exited with status 0, a sub-task is called
\* only after all the item's commands exited with status 0 and its earlier
\* sub-tasks returned nil, and runEnvironment is entered, at most once,
\* only after all the commands and all the sub-tasks succeeded. So a
\* failing command keeps the later commands, the sub-tasks and the
\* environment mutations of its item from running, and a failing sub-task
\* the later sub-tasks and the environment mutations. An item whose guard
\* passed and that did not fail has reached runEnvironment by the time
\* Execute returns.
C13_ItemPartsInOrder ==
    \A inv \in Invs, s \in {"running", "finally"} :
        \A i \in DOMAIN TaskList(inv, s) :
            LET item == TaskList(inv, s)[i]
                execs == ExecsOf(inv, s, i)
                calls == CallsOf(inv, s, i)
                envs == EnvsOf(inv, s, i)
            IN  /\ (execs \cup calls \cup envs # {}) => GuardPassed(inv, s, i)
                /\ \A x \in execs : CommandsDone(inv, s, i, log[x].j - 1, x)
                /\ \A c \in calls :
                      /\ CommandsDone(inv, s, i, Len(item.Command), c)
                      /\ SubTasksDone(inv, s, i, log[c].j - 1, c)
                /\ \A v \in envs :
                      /\ CommandsDone(inv, s, i, Len(item.Command), v)
                      /\ SubTasksDone(inv, s, i, Len(item.Tasks), v)
                /\ Cardinality(envs) <= 1
                /\ (Returned(inv) /\ GuardPassed(inv, s, i) /\ ~ItemFailed(inv, s, i))
                       => envs # {}

\* An item with a command, two sub-tasks and environment mutations ran its
\* command, then had its first sub-task return an error: the second
\* sub-task was not called and runEnvironment was not entered for the
\* item. In the failing sub-task an item ran all its parts and a command
\* of the next item failed. Execute has returned to the command line.
C13_Witness ==
    /\ CycleFree(root)
    /\ result \notin {Pending, NoErr}
    /\ \E inv \in Invs :
        \E i \in DOMAIN TaskList(inv, "running") :
          LET item == TaskList(inv, "running")[i]
          IN  /\ Len(item.Command) > 0
              /\ Len(item.Tasks) = 2
              /\ DOMAIN item.SetEnvironment # {}
              /\ ExecsOf(inv, "running", i) # {}
              /\ Cardinality(CallsOf(inv, "running", i)) = 1
              /\ EnvsOf(inv, "running", i) = {}
              /\ \E c \in CallsOf(inv, "running", i) :
                    /\ Returned(log[c].inv)
                    /\ RetOf(log[c].inv) # NoErr
                    /\ EnvsOf(log[c].inv, "running", 1) # {}
                    /\ \E k \in At("cmderr", log[c].inv) : log[k].s = "running"

\* ------------------------------------------- the execute command's arguments

\* The process environment as the command line found it.
InitialEnv == [k \in EnvKeys |-> "0"]

\* C14: the execute command calls Task.Execute only when the number of
\* positional arguments passed equals the number of args the root task
\* declares. With any other count, fewer or more, Execute is never
\* called: no activation exists, nothing is logged (no run item, no
\* finally item, no command), the environment is untouched, and what the
\* command returns is the argument-count error, never nil. With the right
\* count the first thing that happens is the call of the root task's
\* Execute, and the argument-count error is never returned.
C14_ExactArgCount ==
    IF Len(argv) # Len(Catalogue[root].Args)
    THEN /\ log = <<>>
         /\ frames = <<>>
         /\ env = InitialEnv
         /\ result = Pending \/ (result.kind = "args" /\ result.code = Len(argv))
    ELSE /\ result.kind # "args"
         /\ log # <<>> =>
               /\ log[1].ev = "call"
               /\ log[1].key = root
               /\ log[1].par = 0

\* The command line passed more arguments than the root task declares and
\* the execute command has returned the argument-count error; the root
\* task has run items and finally items that did not run.
C14_Witness ==
    /\ Len(argv) > Len(Catalogue[root].Args)
    /\ result.kind = "args"
    /\ Len(Catalogue[root].RunList) > 0
    /\ Len(Catalogue[root].Finally) > 0
    /\ log = <<>>

\* ------------------------------------------------------- task validation

\* The two conditions of a valid task: sources and targets are both given
\* or both left out, and no option is named like an arg of the task.
Consistent(t) ==
    /\ (Len(t.Source) = 0) <=> (Len(t.Target) = 0)
    /\ \A o \in DOMAIN t.Options, a \in DOMAIN t.Args :
          t.Options[o].Name # t.Args[a].Name

\* C15: isValid returns nil for a task definition if and only if its
\* source and target lists are both empty or both non-empty and no option
\* name equals an arg name of the task; and every task that
\* Task.UnmarshalYAML accepts through its inline (task) candidate meets
\* both conditions, a definition that does not meet them being refused
\* with isValid's error.
C15_ValidIffConsistent ==
    /\ (isValid(node.Fields) = YamlNil) <=> Consistent(node.Fields)
    /\ (decoded.err = YamlNil /\ decoded.via = "task") =>
          /\ decoded.t = node.Fields
          /\ Consistent(decoded.t)
    /\ (decoded # NotDecoded /\ node.Include = "" /\ node.Typed) =>
          /\ decoded.err = isValid(node.Fields)
          /\ decoded.err = YamlNil <=> Consistent(node.Fields)

\* An inline definition with sources, targets, two options and two args
\* was accepted: the option names repeat each other and so do the arg
\* names, but no option is named like an arg.
C15_Witness ==
    /\ decoded.err = YamlNil
    /\ decoded.via = "task"
    /\ node.Include = ""
    /\ Len(decoded.t.Source) > 0
    /\ Len(decoded.t.Target) > 0
    /\ Len(decoded.t.Options) = 2
    /\ Len(decoded.t.Args) = 2

\* ------------------------------------------------------- guards that skip

\* Where the guard of an item of activation inv was evaluated with answer o.
GuardsOf(inv, o) == {g \in At("guard", inv) : log[g].key = o}

\* C16: a run item whose guard does not pass is skipped silently, in the
\* run list and in the finally list alike. The skip carries no error;
\* none of the item's commands is printed or run, none of its sub-tasks
\* is called and runEnvironment is not entered for it; and the very next
\* thing the activation does is to evaluate the guard of the next item of
\* the same list, or, after the last item, to write the cache (run list)
\* or to log the task as completed (finally list). An error raised while
\* evaluating a guard does abort the list: the activation does nothing
\* more for that list, and in the run list that error is what Execute
\* returns. An activation whose items all were skipped, and whose cache
\* write succeeded, returns nil.
C16_SkipIsSilent ==
    \A inv \in Invs :
        /\ \A g \in GuardsOf(inv, "skip") :
              LET s == log[g].s
                  i == log[g].i
              IN  /\ log[g].err = NoErr
                  /\ ExecsOf(inv, s, i) = {}
                  /\ CallsOf(inv, s, i) = {}
                  /\ EnvsOf(inv, s, i) = {}
                  /\ \A p \in At("print", inv) : ~(log[p].s = s /\ log[p].i = i)
                  /\ g < Len(log) =>
                        /\ log[g + 1].inv = inv
                        /\ IF i < Len(TaskList(inv, s))
                           THEN /\ log[g + 1].ev = "guard"
                                /\ log[g + 1].s = s
                                /\ log[g + 1].i = i + 1
                           ELSE log[g + 1].ev =
                                    IF s = "running" THEN "cache" ELSE "completed"
        /\ \A g \in GuardsOf(inv, "err") :
              /\ log[g].err # NoErr
              /\ \A m \in Acts(inv, log[g].s) : m <= g
              /\ (Returned(inv) /\ log[g].s = "running") => RetOf(inv) = log[g].err
        /\ (/\ Returned(inv)
            /\ Started(inv)
            /\ GuardsOf(inv, "pass") \cup GuardsOf(inv, "err") = {}
            /\ \A c \in At("cache", inv) : log[c].err = NoErr)
           => RetOf(inv) = NoErr

\* The first item of a run list was skipped and the second ran its
\* command; the first item of the finally list was skipped as well, and
\* so was the last, after which the task was logged as completed and
\* Execute returned nil.
C16_Witness ==
    /\ CycleFree(root)
    /\ \E inv \in Invs :
          /\ Returned(inv)
          /\ RetOf(inv) = NoErr
          /\ \E g \in GuardsOf(inv, "skip") : log[g].s = "running" /\ log[g].i = 1
          /\ ExecsOf(inv, "running", 2) # {}
          /\ \E g \in GuardsOf(inv, "skip") : log[g].s = "finally" /\ log[g].i = 1
          /\ \E g \in GuardsOf(inv, "skip") :
                log[g].s = "finally" /\ log[g].i = 2 /\ log[g + 1].ev = "completed"

\* ------------------------------------------------- environment mutations

\* C17: a step of runEnvironment that ends without error leaves every
\* variable the item lists with a string value set to that value, every
\* variable it lists with a null value unset, and every variable it does
\* not list as it was, whatever the order in which the entries were gone
\* through; and no other step changes the environment: neither the end of
\* a run list or of a finally list, nor the return of Execute, nor the
\* call of a sub-task restores or alters a variable, so that the mutations
\* show to every later run item, of the task itself, of its sub-tasks and
\* of the task that called it.
C17_EnvironmentEffect ==
    [][ IF frames # <<>> /\ Top.pc = "environment"
        THEN LET m == CurItem(Top).SetEnvironment
             IN  log'[Len(log')].err = NoErr =>
                    \A k \in EnvKeys :
                        env'[k] = IF k \in DOMAIN m THEN m[k] ELSE env[k]
        ELSE env' = env ]_vars

\* A sub-task set Y and returned; its caller then ran an item that sets X
\* and unsets Y, went on to its next item and to its finally list and
\* returned to the command line: X is set to the item's value, Y is unset.
C17_Witness ==
    /\ CycleFree(root)
    /\ result # Pending
    /\ env["X"] = "2"
    /\ env["Y"] = Null
    /\ \E c \in Children(1) :
          \E v \in At("environment", c) :
              /\ log[v].err = NoErr
              /\ DOMAIN TaskList(c, log[v].s)[log[v].i].SetEnvironment = {"Y"}
    /\ \E v \in EnvsOf(1, "running", 1) :
          /\ log[v].err = NoErr
          /\ \E x \in ExecsOf(1, "running", 2) : x > v
          /\ \E x \in At("exec", 1) : log[x].s = "finally" /\ x > v

\* ------------------------------------------------- the order of the log

\* C18: the log of a task that was started follows its execution. The
\* task-start entry is logged once and before anything the task does for
\* an item (guards, commands, sub-task calls, environment mutations). The
\* finally header is logged at most once, after everything the task did
\* for its run list and after the cache write, and before everything it
\* does for its finally list. The task-completed entry is logged at most
\* once and only as the last thing before Execute returns: after every
\* entry of the finally list, after the return of every sub-task, and on
\* every exit path, so that an activation that was started and has
\* returned has logged it exactly once, whatever it returns. A task with
\* finally items that has returned has logged the header. An activation
\* that was not started logs none of the three.
C18_LogFollowsExecution ==
    \A inv \in Invs :
        LET starts == At("start", inv)
            headers == At("finally", inv)
            dones == At("completed", inv)
            run == Acts(inv, "running") \cup At("cache", inv)
            fin == Acts(inv, "finally")
        IN  /\ Cardinality(starts) <= 1
            /\ Cardinality(headers) <= 1
            /\ Cardinality(dones) <= 1
            /\ (run \cup fin \cup headers \cup dones # {}) => starts # {}
            /\ \A a \in starts, m \in run \cup fin \cup headers \cup dones : a < m
            /\ \A h \in headers :
                  /\ \A m \in run : m < h
                  /\ \A m \in fin : h < m
            /\ fin # {} => headers # {}
            /\ \A d \in dones :
                  /\ \A m \in run \cup fin \cup headers : m < d
                  /\ \A c \in Children(inv) : Returned(c) /\ ReturnAt(c) < d
                  /\ Returned(inv)
                  /\ ReturnAt(inv) = d + 1
            /\ (Returned(inv) /\ Started(inv)) =>
                  /\ dones # {}
                  /\ Len(TaskOf(inv).Finally) > 0 => headers # {}

\* A command of the run list failed; the finally header was logged and a
\* finally command ran, then a sub-task's caller got the error: both the
\* failing activation and its caller logged task-completed and returned
\* the error.
C18_Witness ==
    /\ CycleFree(root)
    /\ \E inv \in Invs :
          /\ CallOf(inv).par # 0
          /\ Returned(inv)
          /\ RetOf(inv) # NoErr
          /\ \E k \in At("cmderr", inv) : log[k].s = "running"
          /\ \E x \in At("exec", inv) : log[x].s = "finally"
          /\ At("completed", inv) # {}
          /\ Returned(CallOf(inv).par)
          /\ RetOf(CallOf(inv).par) = RetOf(inv)
          /\ At("completed", CallOf(inv).par) # {}
          /\ \E x \in At("exec", CallOf(inv).par) : log[x].s = "finally"

\* ------------------------------------------- the finally list's first error

\* C19: the finally list stops at its first failing item. Once an item of
\* the finally list has failed (its guard, a command, a sub-task or an
\* environment mutation), the activation does nothing more for its
\* finally list, whether its run list had failed or not: the next thing it
\* logs is task-completed. The finally list is entered at most once per
\* activation: runFinally is called once, the header is logged at most
\* once, and the guard of each finally item is evaluated at most once.
C19_FinallyStopsAtFirstError ==
    \A inv \in Invs :
        /\ \A k \in FailsOf(inv, "finally") :
              /\ \A m \in Acts(inv, "finally") : m <= k
              /\ k < Len(log) =>
                    /\ log[k + 1].ev = "completed"
                    /\ log[k + 1].inv = inv
        /\ Cardinality(FailsOf(inv, "finally")) <= 1
        /\ Cardinality(At("runFinally", inv)) <= 1
        /\ Cardinality(At("finally", inv)) <= 1
        /\ \A g, h \in At("guard", inv) :
              (log[g].s = "finally" /\ log[h].s = "finally" /\ log[g].i = log[h].i)
                  => g = h

\* The run list of a task failed, then the first of its two finally items
\* failed in its command: the second finally item was not touched and
\* Execute has returned.
C19_Witness ==
    /\ CycleFree(root)
    /\ \E inv \in Invs :
          /\ Returned(inv)
          /\ Len(TaskOf(inv).Finally) = 2
          /\ FailsOf(inv, "running") # {}
          /\ \E k \in FailsOf(inv, "finally") : log[k].ev = "cmderr" /\ log[k].i = 1
          /\ \A m \in Acts(inv, "finally") : log[m].i = 1

\* ------------------------------------------------ the scope of the stack

\* The tasks of the chain of activation inv, the root's first.
RECURSIVE ChainSeq(_)
ChainSeq(inv) ==
    (IF CallOf(inv).par = 0 THEN <<>> ELSE ChainSeq(CallOf(inv).par))
    \o <<CallOf(inv).key>>

\* The names a command of activation inv is to be logged with.
ChainNames(inv) ==
    LET shown == SelectSeq(ChainSeq(inv), LAMBDA t : ~Catalogue[t].Private)
    IN  [n \in DOMAIN shown |-> Catalogue[shown[n]].Name]

\* C20: the task stack is scoped to the sub-task call. At every moment the
\* Context stack of each activation on the call stack holds exactly the
\* tasks of its own chain, in call order, so that after a sub-task's
\* Execute has returned the caller's stack is what it was before the call
\* and the sub-task is not on it. Hence a command the caller runs after a
\* quiet sub-task has returned is printed whenever the command and the
\* caller's own chain are not quiet, and every command that is printed is
\* logged with the names of the tasks of its activation's chain, in stack
\* order, private tasks left out.
C20_StackScopedToCall ==
    /\ \A k \in DOMAIN frames :
          Elems(heap, frames[k].ctx) = [n \in 1..k |-> frames[n].t]
    /\ \A p \in DOMAIN log :
          log[p].ev = "print" => log[p].names = ChainNames(log[p].inv)
    /\ \A x \in DOMAIN log :
          (/\ log[x].ev = "exec"
           /\ ~CmdOf(x).Quiet
           /\ \A a \in Chain(log[x].inv) : ~TaskOf(a).Quiet
           /\ \E c \in Children(log[x].inv) :
                 TaskOf(c).Quiet /\ Returned(c) /\ ReturnAt(c) < x)
          => Printed(x)

\* A quiet sub-task and then a private sub-task have returned to the root
\* task, which is not quiet; the private sub-task's command was printed
\* with the root's name alone, and so was a command the root ran after
\* both had returned.
C20_Witness ==
    /\ CycleFree(root)
    /\ ~Catalogue[root].Quiet
    /\ \E q, v \in Children(1) :
          /\ TaskOf(q).Quiet /\ Returned(q)
          /\ TaskOf(v).Private /\ Returned(v)
          /\ ReturnAt(q) < CallAt(v)
          /\ \E p \in At("print", v) : log[p].names = <<root>>
          /\ \E p \in At("print", 1) : p > ReturnAt(v) /\ log[p].names = <<root>>

====
